---- MODULE Spec2Model ----
(***************************************************************************)
(* The chat relay of AadishY/AiAadish: POST /api/chat validates a request, *)
(* picks an upstream provider, and relays the provider's output over the   *)
(* HTTP response.  The repository holds several revisions of the handler;  *)
(* the variable rev says which one is deployed:                            *)
(*   "gemini1"  src/src/server.js     lines   1-185                        *)
(*   "gemini2"  src/src/server.js     lines 187-380                        *)
(*   "cleanup"  src/unnamed/part_000  (responseStarted / cleanup)          *)
(*   "memory"   src/unnamed/part_001  lines 112-294 (responseEnded)        *)
(*   "strict"   src/unnamed/part_002  lines   1-162 (rejects bad model)    *)
(* The process around the handler is src/src/index.js: it loads the server *)
(* module, listens unless NODE_ENV is 'production', and shuts down on       *)
(* SIGTERM / SIGINT.                                                       *)
(*                                                                         *)
(* Conventions.  A JavaScript value is a record [t, n, s]: t is its type,  *)
(* n its number, s its string.  A number is held in tenths (1.0 is 10,     *)
(* 1024 is 10240), so that one decimal digit is exact.  A string is a      *)
(* sequence of fragments; the fragment " " is a whitespace character, and  *)
(* an identifier such as a model id is a single fragment.                  *)
(***************************************************************************)
EXTENDS Integers, Sequences, FiniteSets, TLC

(* ------------------------------ bounds -------------------------------- *)
\* The upstream stream of one request carries at most MaxTokens tokens.
MaxTokens == 2
\* A history array has at most MaxHist entries.
MaxHist == 2

(* --------------------------- JavaScript values ------------------------ *)
Undef == [t |-> "undefined", n |-> 0, s |-> <<>>]
NaN == [t |-> "nan", n |-> 0, s |-> <<>>]
Num(x) == [t |-> "number", n |-> x, s |-> <<>>]
Str(cs) == [t |-> "string", n |-> 0, s |-> cs]
Lit(a) == Str(<<a>>)
\* n whole units, in tenths
Whole(i) == i * 10

\* JavaScript truthiness: undefined, NaN, 0 and "" are falsy.
Truthy(v) ==
    CASE v.t = "undefined" -> FALSE
      [] v.t = "nan" -> FALSE
      [] v.t = "number" -> v.n # 0
      [] OTHER -> v.s # <<>>

RECURSIVE TrimStart(_)
TrimStart(cs) ==
    IF cs # <<>> /\ Head(cs) = " " THEN TrimStart(Tail(cs)) ELSE cs

RECURSIVE TrimEnd(_)
TrimEnd(cs) ==
    IF cs # <<>> /\ cs[Len(cs)] = " " THEN TrimEnd(SubSeq(cs, 1, Len(cs) - 1)) ELSE cs

\* String.prototype.trim
Trim(cs) == TrimEnd(TrimStart(cs))

Max(a, b) == IF a >= b THEN a ELSE b
Min(a, b) == IF a <= b THEN a ELSE b

Digits == {"0", "1", "2", "3", "4", "5", "6", "7", "8", "9"}
DigitVal(c) ==
    CASE c = "0" -> 0 [] c = "1" -> 1 [] c = "2" -> 2 [] c = "3" -> 3 [] c = "4" -> 4
      [] c = "5" -> 5 [] c = "6" -> 6 [] c = "7" -> 7 [] c = "8" -> 8 [] OTHER -> 9

\* The number of leading digit characters of cs.
RECURSIVE DigitRun(_)
DigitRun(cs) ==
    IF cs # <<>> /\ Head(cs) \in Digits THEN 1 + DigitRun(Tail(cs)) ELSE 0

\* The value of a run of digits (most significant first), in whole units.
RECURSIVE DigitsValue(_)
DigitsValue(cs) ==
    IF cs = <<>> THEN 0 ELSE DigitsValue(SubSeq(cs, 1, Len(cs) - 1)) * 10 + DigitVal(cs[Len(cs)])

DigitChars == <<"0", "1", "2", "3", "4", "5", "6", "7", "8", "9">>

\* The text JavaScript gives a number (String(x)), for the numbers of the model:
\* an optional "-", the whole part, and "." with one digit when there is a fraction.
RECURSIVE NatText(_)
NatText(i) ==
    IF i < 10 THEN <<DigitChars[i + 1]>> ELSE Append(NatText(i \div 10), DigitChars[(i % 10) + 1])

AbsText(a) ==
    NatText(a \div 10) \o (IF a % 10 = 0 THEN <<>> ELSE <<".", NatText(a % 10)[1]>>)
NumberText(x) == IF x < 0 THEN <<"-">> \o AbsText(-x) ELSE AbsText(x)

\* What a value is turned into before parseFloat / parseInt read it.
ToText(v) ==
    CASE v.t = "string" -> v.s
      [] v.t = "number" -> NumberText(v.n)
      [] OTHER -> <<"u">>

\* A numeric prefix is read in steps: the sign, the run of digits, the fraction.
IsNegative(cs) == cs # <<>> /\ Head(cs) = "-"
StripSign(cs) == IF cs # <<>> /\ Head(cs) \in {"-", "+"} THEN Tail(cs) ELSE cs
\* The first digit after a "." at the head of rest, or -1 when there is none.
FractionDigit(rest) ==
    IF Len(rest) >= 2 /\ rest[1] = "." /\ rest[2] \in Digits THEN DigitVal(rest[2]) ELSE -1
\* k digits were read, worth whole; fd is the fraction digit or -1.
ComposeNumber(neg, k, whole, fd) ==
    IF k = 0 /\ fd < 0 THEN NaN
    ELSE Num((IF neg THEN -1 ELSE 1) * (Whole(whole) + Max(fd, 0)))
ParseDigits(neg, cs, k, withFraction) ==
    ComposeNumber(neg, k, DigitsValue(SubSeq(cs, 1, k)),
                  IF withFraction THEN FractionDigit(SubSeq(cs, k + 1, Len(cs))) ELSE -1)
ParseUnsigned(neg, cs, withFraction) == ParseDigits(neg, cs, DigitRun(cs), withFraction)
ParsePrefix(cs, withFraction) == ParseUnsigned(IsNegative(cs), StripSign(cs), withFraction)

\* parseFloat: skips leading whitespace, reads the longest numeric prefix
\* [-+] digits [. digits], and gives NaN when there is none.
parseFloat(v) == ParsePrefix(TrimStart(ToText(v)), TRUE)

\* parseInt: as parseFloat, but stops before the fraction.
parseInt(v) == ParsePrefix(TrimStart(ToText(v)), FALSE)

\* Number.isFinite(v): a number (the body is JSON, so never an infinity)
NumberIsFinite(v) == v.t = "number"
\* Number.isInteger(v)
NumberIsInteger(v) == v.t = "number" /\ v.n % 10 = 0
\* typeof v === 'number' (NaN is a number to typeof)
TypeofNumber(v) == v.t \in {"number", "nan"}

(* ----------------------------- request body --------------------------- *)
\* req.body of POST /api/chat.  history is [isArray, items]; an item of the
\* array is null or an object with an optional role and content.
NoHistory == [isArray |-> FALSE, items |-> <<>>]
HistoryOf(items) == [isArray |-> TRUE, items |-> items]
NullEntry == [isNull |-> TRUE, role |-> Undef, content |-> Undef]
Entry(role, content) == [isNull |-> FALSE, role |-> role, content |-> content]

BaseBody ==
    [message |-> Lit("Hi"), model |-> Undef, system |-> Undef, history |-> NoHistory,
     temperature |-> Undef, top_p |-> Undef, max_completion_tokens |-> Undef,
     format |-> Undef]

\* list.includes(v) for a list of string literals
Includes(list, v) == v.t = "string" /\ Len(v.s) = 1 /\ v.s[1] \in list

(* ------------------------- Request Normalizer ------------------------- *)
\* A weaker validation, without the trim test: whitespace-only messages pass.
MessageRejectedNoTrim(message) ==
    \/ ~Truthy(message)
    \/ message.t # "string"

\* !message || typeof message !== 'string' || message.trim() === ''
MessageRejected(message) ==
    \/ ~Truthy(message)
    \/ message.t # "string"
    \/ Trim(message.s) = <<>>

DefaultModel == Lit("compound-beta")
DefaultSystem == Lit("You are a helpful AI assistant.")

VALID_MODELS ==
    {"compound-beta", "compound-beta-mini", "meta-llama/llama-4-scout-17b-16e-instruct",
     "llama-3.3-70b-versatile", "gemma2-9b-it", "deepseek-r1-distill-llama-70b",
     "qwen-qwq-32b"}

\* A shorter allow-list, one identifier missing.
geminiModelsShort == {"gemma-3-27b-it", "gemini-2.5-flash-preview-04-17"}

geminiModels == {"gemma-3-27b-it", "gemini-2.0-flash", "gemini-2.5-flash-preview-04-17"}

\* const modelId = model || "compound-beta"
modelId(b) == IF Truthy(b.model) THEN b.model ELSE DefaultModel

\* system || "You are a helpful AI assistant."
SystemOrDefault(system) == IF Truthy(system) THEN system ELSE DefaultSystem

\* Math.max(lo, Math.min(hi, x)) on numbers in tenths
Clamp(lo, hi, x) == Max(lo, Min(hi, x))

\* server.js, part_002: typeof x === 'number' ? x : dflt, for the three parameters
llmConfig(b) ==
    [model |-> modelId(b),
     temperature |-> IF TypeofNumber(b.temperature) THEN b.temperature ELSE Num(Whole(1)),
     maxTokens |-> IF TypeofNumber(b.max_completion_tokens) THEN b.max_completion_tokens
                   ELSE Num(Whole(1024)),
     topP |-> IF TypeofNumber(b.top_p) THEN b.top_p ELSE Num(Whole(1))]

\* validatedConfig.system of part_000 and part_001
validatedSystem(system) ==
    IF system.t = "string" /\ Trim(system.s) # <<>> THEN Str(Trim(system.s)) ELSE DefaultSystem

\* Number.isFinite(x) ? Math.max(lo, Math.min(hi, x)) : dflt
ClampOrDefault(x, lo, hi, dflt) == IF NumberIsFinite(x) THEN Num(Clamp(lo, hi, x.n)) ELSE dflt
\* Number.isInteger(x) ? Math.max(1, x) : dflt
PositiveOrDefault(x, dflt) == IF NumberIsInteger(x) THEN Num(Max(Whole(1), x.n)) ELSE dflt

\* validatedConfig of part_000: parseFloat / parseInt, then clamp
validatedConfig000(b) ==
    [message |-> Str(Trim(b.message.s)),
     model |-> IF Includes(VALID_MODELS, b.model) THEN b.model ELSE DefaultModel,
     system |-> validatedSystem(b.system),
     temperature |-> ClampOrDefault(parseFloat(b.temperature), Whole(0), Whole(2), Num(Whole(1))),
     topP |-> ClampOrDefault(parseFloat(b.top_p), Whole(0), Whole(1), Num(Whole(1))),
     maxTokens |-> PositiveOrDefault(parseInt(b.max_completion_tokens), Num(Whole(1024)))]

\* validatedConfig of part_001: Number.isFinite / Number.isInteger, then clamp
validatedConfig001(b) ==
    [message |-> Str(Trim(b.message.s)),
     model |-> IF Includes(VALID_MODELS, b.model) THEN b.model ELSE DefaultModel,
     system |-> validatedSystem(b.system),
     temperature |-> ClampOrDefault(b.temperature, Whole(0), Whole(2), Num(Whole(1))),
     topP |-> ClampOrDefault(b.top_p, Whole(0), Whole(1), Num(Whole(1))),
     maxTokens |-> PositiveOrDefault(b.max_completion_tokens, Num(Whole(1024)))]

\* What the handler works with after normalizing, per revision: server.js and
\* part_002 keep message and system as given and take the parameters by typeof.
Normalized(rv, b) ==
    CASE rv = "cleanup" -> validatedConfig000(b)
      [] rv = "memory" -> validatedConfig001(b)
      [] OTHER -> [message |-> b.message, system |-> SystemOrDefault(b.system)] @@ llmConfig(b)

\* new ChatGroq({ model, temperature, maxTokens, topP, ... })
ChatGroqConfig(vc) ==
    [model |-> vc.model, temperature |-> vc.temperature, maxTokens |-> vc.maxTokens,
     topP |-> vc.topP]

(* ------------------------ Conversation assembly ----------------------- *)
Msg(role, text) == [role |-> role, text |-> text]

\* msg.role read on a null array item throws a TypeError
RoleReadThrows(history) ==
    history.isArray /\ \E i \in 1..Len(history.items) : history.items[i].isNull

IsUserOrAssistant(e) == ~e.isNull /\ (e.role = Lit("user") \/ e.role = Lit("assistant"))

\* history.map(msg => user -> HumanMessage, assistant -> AIMessage, else null).filter(Boolean)
ToLangChain(e) == Msg(IF e.role = Lit("user") THEN "human" ELSE "ai", e.content)
ToLangChainEach(kept) == [i \in 1..Len(kept) |-> ToLangChain(kept[i])]
historyMessages(history) ==
    IF history.isArray THEN ToLangChainEach(SelectSeq(history.items, IsUserOrAssistant))
    ELSE <<>>

\* previousMessages of part_001 / part_002: !msg?.role || !msg?.content -> null,
\* then user / assistant / system, else null; .filter(Boolean)
IsKnownAndComplete(e) ==
    /\ ~e.isNull
    /\ Truthy(e.role)
    /\ Truthy(e.content)
    /\ (e.role = Lit("user") \/ e.role = Lit("assistant") \/ e.role = Lit("system"))
ToLangChain3(e) ==
    Msg(CASE e.role = Lit("user") -> "human" [] e.role = Lit("assistant") -> "ai"
          [] OTHER -> "system", e.content)
ToLangChain3Each(kept) == [i \in 1..Len(kept) |-> ToLangChain3(kept[i])]
previousMessages(history) ==
    IF history.isArray THEN ToLangChain3Each(SelectSeq(history.items, IsKnownAndComplete))
    ELSE <<>>

\* [new SystemMessage(system), ...history, new HumanMessage(message)]
messagesOf(vc, hist) == <<Msg("system", vc.system)>> \o hist \o <<Msg("human", vc.message)>>

\* The messages given to the primary provider, per revision.
primaryMessages(rv, b) ==
    messagesOf(Normalized(rv, b),
               IF rv \in {"memory", "strict"} THEN previousMessages(b.history)
               ELSE historyMessages(b.history))

\* A conversion that keeps the primary provider's role labels.
ToGeminiSameRole(e) == Msg(IF e.role = Lit("assistant") THEN "assistant" ELSE "user", e.content)

\* geminiRole: 'assistant' becomes 'model'
ToGemini(e) == Msg(IF e.role = Lit("assistant") THEN "model" ELSE "user", e.content)

ToGeminiEach(kept) == [i \in 1..Len(kept) |-> ToGemini(kept[i])]
geminiHistory(history) ==
    IF history.isArray THEN ToGeminiEach(SelectSeq(history.items, IsUserOrAssistant))
    ELSE <<>>

\* payload.contents of server.js 66-87: the message, system unshifted before it,
\* the history pushed after it
payloadContents(b) ==
    (IF Truthy(b.system) THEN <<Msg("system", b.system)>> ELSE <<>>)
        \o <<Msg("user", b.message)>> \o geminiHistory(b.history)

\* data.contents of server.js 254-288: system (as a user turn), history, message
dataContents(b) ==
    (IF Truthy(b.system) THEN <<Msg("user", b.system)>> ELSE <<>>)
        \o geminiHistory(b.history) \o <<Msg("user", b.message)>>

geminiContents(rv, b) == IF rv = "gemini1" THEN payloadContents(b) ELSE dataContents(b)

(* ------------------------------- state -------------------------------- *)
VARIABLES
    proc,            \* the server process: its phase, process.env, the .env file
    rev,             \* the revision of the handler that is deployed
    GOOGLE_API_KEY,  \* whether the alternate provider's key is configured
    budget,          \* how many tokens an upstream stream may carry in this run
    body,            \* body[r]: req.body of request r
    pc,              \* pc[r]: "absent", "sent", "invoke", "fetch" or "done"
    res,             \* res[r]: the HTTP response object of request r
    loc,             \* loc[r]: the handler's locals responseStarted / responseEnded
    up,              \* up[r]: what request r handed to the upstream providers
    stream,          \* stream[r]: the primary provider's token stream
    cbq,             \* cbq[r]: callbacks the provider client has queued for r
    fault            \* fault[r]: the first error of request r and when it was raised

vars == <<proc, rev, GOOGLE_API_KEY, budget, body, pc, res, loc, up, stream, cbq, fault>>

Revs == {"gemini1", "gemini2", "cleanup", "memory", "strict"}
GeminiRevs == {"gemini1", "gemini2"}
Reqs == {1, 2}

(* --------------------------- response object -------------------------- *)
\* status 0: the headers are not sent yet
NewResponse ==
    [status |-> 0, ctype |-> "", chunks |-> <<>>, ended |-> FALSE, endCalls |-> 0,
     lateWrite |-> FALSE]
NewLocals == [responseStarted |-> FALSE, responseEnded |-> FALSE]
NoUpstream ==
    [primary |-> 0, alternate |-> 0, messages |-> <<>>, reply |-> "none",
     config |-> [model |-> Undef, temperature |-> Undef, maxTokens |-> Undef, topP |-> Undef]]
NoStream == [open |-> FALSE, produced |-> 0, tokens |-> <<>>, outcome |-> "none"]
NoFault == [phase |-> "none", kind |-> "none"]

Chunk(kind, text) == [k |-> kind, v |-> text]

\* res.writeHead(status, {'Content-Type': ctype, ...})
ResWriteHead(rs, status, ctype) == [rs EXCEPT !.status = status, !.ctype = ctype]

\* res.write(chunk): after end() nothing is sent and the stream reports
\* ERR_STREAM_WRITE_AFTER_END; before the headers it sends them with status 200
ResWrite(rs, chunk) ==
    IF rs.ended THEN [rs EXCEPT !.lateWrite = TRUE]
    ELSE [rs EXCEPT !.chunks = Append(@, chunk),
                    !.status = IF @ = 0 THEN 200 ELSE @]

\* res.end()
ResEnd(rs) ==
    [rs EXCEPT !.ended = TRUE, !.endCalls = Min(@ + 1, 2),
               !.status = IF @ = 0 THEN 200 ELSE @]

\* res.status(code).json({ error: text })
ResStatusJson(rs, code, text) ==
    ResEnd(ResWrite(ResWriteHead(rs, code, "application/json"), Chunk("json_error", text)))

\* The handler's view of one request: its response and its locals.
Ctx(rs, lc) == [res |-> rs, loc |-> lc]

(* ------------------------ cleanup and catch blocks -------------------- *)
\* cleanup of part_000
cleanup(c) ==
    IF ~c.loc.responseEnded
    THEN Ctx(IF ~c.loc.responseStarted
             THEN ResStatusJson(c.res, 500, "Internal server error")
             ELSE ResEnd(c.res),
             [c.loc EXCEPT !.responseEnded = TRUE])
    ELSE c

\* A catch block that only logs: it neither writes nor ends the response.
catchLogsOnly(c) == c

\* A catch block without the writableEnded test: it always writes and ends.
catchUnguarded(c) ==
    Ctx(ResEnd(ResWrite(c.res, Chunk("server_error", "\nServer Error: "))), c.loc)

\* catch (error) of server.js and part_002: guarded by res.writableEnded
catchWritableEnded(c) ==
    IF ~c.res.ended
    THEN Ctx(ResEnd(ResWrite(c.res, Chunk("server_error", "\nServer Error: "))), c.loc)
    ELSE c

\* catch (error) of part_001: guarded by responseEnded
catchResponseEnded(c) ==
    IF ~c.loc.responseEnded
    THEN Ctx(ResEnd(ResWrite(c.res, Chunk("server_error", "\nServer Error: "))),
             [c.loc EXCEPT !.responseEnded = TRUE])
    ELSE c

\* The handler's catch (error) block, per revision.
catchBlock(rv, c) ==
    CASE rv = "cleanup" -> cleanup(c)
      [] rv = "memory" -> catchResponseEnded(c)
      [] OTHER -> catchWritableEnded(c)

(* ------------------------------ callbacks ----------------------------- *)
\* A token that is an unpaired surrogate (half of an emoji), and the
\* replacement character U+FFFD.
LoneSurrogate == "<D83D>"
Replacement == "<FFFD>"

\* Buffer.from(token, 'utf8').toString('utf8'): well-formed text comes back
\* unchanged, an unpaired surrogate comes back as U+FFFD.
Utf8RoundTrip(token) == IF token = LoneSurrogate THEN Replacement ELSE token

\* handleLLMNewToken(token)
handleLLMNewToken(rv, c, token) ==
    CASE rv = "cleanup" ->
            IF ~c.loc.responseEnded /\ token # ""
            THEN Ctx(ResWrite(c.res, Chunk("token", token)), c.loc) ELSE c
      [] rv = "memory" ->
            IF token # "" /\ ~c.loc.responseEnded
            THEN Ctx(ResWrite(c.res, Chunk("token", Utf8RoundTrip(token))), c.loc) ELSE c
      [] OTHER ->
            IF token # ""
            THEN Ctx(ResWrite(c.res, Chunk("token", Utf8RoundTrip(token))), c.loc) ELSE c

\* handleLLMEnd()
handleLLMEnd(rv, c) ==
    CASE rv = "cleanup" -> cleanup(c)
      [] rv = "memory" ->
            IF ~c.loc.responseEnded
            THEN Ctx(ResEnd(c.res), [c.loc EXCEPT !.responseEnded = TRUE]) ELSE c
      [] OTHER -> Ctx(ResEnd(c.res), c.loc)

\* handleLLMError(error)
handleLLMError(rv, c) ==
    CASE rv = "cleanup" ->
            IF ~c.loc.responseEnded
            THEN cleanup(Ctx(ResWrite(c.res, Chunk("error", "Error: ")), c.loc)) ELSE c
      [] rv = "memory" ->
            IF ~c.loc.responseEnded
            THEN Ctx(ResEnd(ResWrite(c.res, Chunk("error", "Error: "))),
                     [c.loc EXCEPT !.responseEnded = TRUE])
            ELSE c
      [] OTHER ->
            IF ~c.res.ended
            THEN Ctx(ResEnd(ResWrite(c.res, Chunk("error", "Error: "))), c.loc) ELSE c

(* ------------------- the handler up to its first await ---------------- *)
\* A key test that lets every request through.
GeminiKeyIgnored(key) == FALSE

\* if (!GOOGLE_API_KEY)
GeminiKeyMissing(key) == ~key

\* 'Error: GOOGLE_API_KEY is required for Gemini models.'
GeminiKeyError == "Error: GOOGLE_API_KEY is required for Gemini models."

Out(pcv, c, upv, st, flt) == [pc |-> pcv, ctx |-> c, up |-> upv, stream |-> st, fault |-> flt]
Fault(phase, kind) == [phase |-> phase, kind |-> kind]
OpenStream == [open |-> TRUE, produced |-> 0, tokens |-> <<>>, outcome |-> "none"]

\* A handler that sets no headers of its own: they go out with the first
\* write, as Node's implicit ones.
writeNoHead(rs) == rs

\* res.writeHead(200, { 'Content-Type': 'text/plain; charset=utf-8', ... }),
\* the statement between the message validation and the provider selection
writeStreamHead(rs) == ResWriteHead(rs, 200, "text/plain; charset=utf-8")

\* app.post('/api/chat', async (req, res) => { try { ... await
\* key is GOOGLE_API_KEY, b is req.body.  JavaScript runs the handler to its
\* first await (or to its return) without interleaving.
handler(rv, key, b) ==
    LET c0 == Ctx(NewResponse, NewLocals)
        c1 == Ctx(writeStreamHead(c0.res),
                  [c0.loc EXCEPT !.responseStarted = (rv = "cleanup")])
        throws == rv \in {"gemini1", "gemini2", "cleanup"} /\ RoleReadThrows(b.history)
    IN  IF MessageRejected(b.message)
        THEN Out("done",
                 Ctx(ResStatusJson(c0.res, 400, "Message is required and cannot be empty"), c0.loc),
                 NoUpstream, NoStream, Fault("pre", "validation"))
        ELSE IF rv = "strict" /\ ~Includes(VALID_MODELS, modelId(b))
        THEN Out("done", Ctx(ResStatusJson(c0.res, 400, "Invalid model ID"), c0.loc),
                 NoUpstream, NoStream, Fault("pre", "model"))
        ELSE IF rv \in GeminiRevs /\ Includes(geminiModels, modelId(b))
        THEN IF GeminiKeyMissing(key)
             THEN Out("done",
                      Ctx(ResEnd(ResWrite(c1.res, Chunk("error", GeminiKeyError))), c1.loc),
                      NoUpstream, NoStream, Fault("post", "key"))
             ELSE IF throws
             THEN Out("done", catchBlock(rv, c1), NoUpstream, NoStream, Fault("post", "typeerror"))
             ELSE Out("fetch", c1,
                      [NoUpstream EXCEPT !.alternate = 1, !.messages = geminiContents(rv, b),
                                         !.config = llmConfig(b)],
                      NoStream, NoFault)
        ELSE IF throws
        THEN Out("done", catchBlock(rv, c1), NoUpstream, NoStream, Fault("post", "typeerror"))
        ELSE Out("invoke", c1,
                 [NoUpstream EXCEPT !.primary = 1, !.messages = primaryMessages(rv, b),
                                    !.config = ChatGroqConfig(Normalized(rv, b))],
                 OpenStream, NoFault)

(* ---------------------------- process start --------------------------- *)
\* process.env and the .env file record which variables are set; production
\* is NODE_ENV === 'production'.  atStart keeps the environment the process was
\* started with, handlers says whether index.js installed its signal handlers,
\* timer is the force timer of shutdown ("unset", "armed" or "fired"), signal
\* the last signal handled, and code the exit code (-1 while the process runs).
NewProcess(env, file) ==
    [phase |-> "start", env |-> env, atStart |-> env, file |-> file, routes |-> FALSE,
     handlers |-> FALSE, timer |-> "unset", signal |-> "none", code |-> -1]

\* dotenv.config({ path: '../.env' }): sets what the file has and the
\* environment has not; it never overrides a variable that is set.
dotenvConfig(env, file) ==
    [env EXCEPT !.GROQ_API_KEY = @ \/ file.GROQ_API_KEY,
                !.GOOGLE_API_KEY = @ \/ file.GOOGLE_API_KEY]

\* part_000 loads .env only when NODE_ENV is not 'production'.
LoadsDotenv(rv, env) == rv = "cleanup" => ~env.production

\* A start-up test that accepts every environment.
ApiKeyNeverMissing(env) == FALSE

\* const API_KEY = process.env.GROQ_API_KEY || process.env.API_KEY; if (!API_KEY)
ApiKeyMissing(env) == ~(env.GROQ_API_KEY \/ env.API_KEY)

\* A constant that is read after the .env file was loaded.
googleKeyAfterDotenv(rv, p) ==
    rv \in GeminiRevs /\ (p.env.GOOGLE_API_KEY \/ p.file.GOOGLE_API_KEY)

\* const GOOGLE_API_KEY = process.env.GOOGLE_API_KEY, which server.js evaluates
\* before dotenv.config; the other revisions have no such constant.
googleKeyAtLoad(rv, p) == rv \in GeminiRevs /\ p.env.GOOGLE_API_KEY


\* require('./server'): the module body runs to its end or to its throw.  The
\* throw is not caught (index.js requires the module outside its try block),
\* so the process dies with no route registered.
loadServer(rv, p) ==
    LET env1 == IF LoadsDotenv(rv, p.env) THEN dotenvConfig(p.env, p.file) ELSE p.env
    IN  IF ApiKeyMissing(env1)
        THEN [p EXCEPT !.phase = "crashed", !.env = env1]
        ELSE [p EXCEPT !.phase = "loaded", !.env = env1, !.routes = TRUE]

\* index.js 4-44: unless NODE_ENV is 'production', where the app is only
\* exported and the platform calls it, app.listen(PORT) and
\* process.on('SIGTERM' / 'SIGINT', shutdown).  When listen throws (catch,
\* 40-43) or the server emits 'error' (14-21, the port is in use) the process
\* exits with code 1.
startServing(p, listens) ==
    IF p.env.production THEN [p EXCEPT !.phase = "exported"]
    ELSE IF listens THEN [p EXCEPT !.phase = "listening", !.handlers = TRUE]
    ELSE [p EXCEPT !.phase = "exited", !.handlers = TRUE, !.code = 1]

\* A shutdown that only closes the server and sets no force timer.
shutdownNoTimer(p, sig) == [p EXCEPT !.phase = "closing", !.signal = sig]

\* shutdown: server.close(callback) and setTimeout(..., 10000).  A second
\* signal runs it again: the server is closing already and the first timer
\* is still the one that fires first.
shutdown(p, sig) == [p EXCEPT !.phase = "closing", !.timer = "armed", !.signal = sig]

\* The callback of server.close: process.exit(0)
serverClosed(p) == [p EXCEPT !.phase = "exited", !.code = 0]

\* The callback of setTimeout: process.exit(1)
forceExit(p) == [p EXCEPT !.phase = "exited", !.timer = "fired", !.code = 1]

\* The process runs: it neither died while loading the module nor exited.
Alive(p) == p.phase \notin {"crashed", "exited"}

\* Requests reach the handler once the routes exist and the app is listening
\* or exported.
Serves(p) == p.routes /\ p.phase \in {"listening", "exported"}

\* A process that started with the primary key set and is listening.
Serving(key) ==
    [phase |-> "listening",
     env |-> [GROQ_API_KEY |-> TRUE, API_KEY |-> FALSE, GOOGLE_API_KEY |-> key,
              production |-> FALSE],
     atStart |-> [GROQ_API_KEY |-> TRUE, API_KEY |-> FALSE, GOOGLE_API_KEY |-> key,
                  production |-> FALSE],
     file |-> [GROQ_API_KEY |-> FALSE, GOOGLE_API_KEY |-> FALSE],
     routes |-> TRUE, handlers |-> TRUE, timer |-> "unset", signal |-> "none", code |-> -1]

(* ------------------------------- actions ------------------------------ *)
LoadServer ==
    /\ proc.phase = "start"
    /\ proc' = loadServer(rev, proc)
    /\ GOOGLE_API_KEY' = googleKeyAtLoad(rev, proc)
    /\ UNCHANGED <<rev, budget, body, pc, res, loc, up, stream, cbq, fault>>

StartServing ==
    /\ proc.phase = "loaded"
    /\ \E listens \in BOOLEAN : proc' = startServing(proc, listens)
    /\ UNCHANGED <<rev, GOOGLE_API_KEY, budget, body, pc, res, loc, up, stream, cbq, fault>>

\* A request whose handler is running or whose response is not finished
\* holds its connection open.
ConnectionOpen(r) == pc[r] \in {"invoke", "fetch"} \/ (res[r].status # 0 /\ ~res[r].ended)

\* SIGTERM or SIGINT reaches the process while the handlers of index.js are
\* installed.  (Without them the signal has its default disposition, which is
\* no code of this repository.)
Signal(sig) ==
    /\ proc.handlers
    /\ proc.phase \in {"listening", "closing"}
    /\ proc' = shutdown(proc, sig)
    /\ UNCHANGED <<rev, GOOGLE_API_KEY, budget, body, pc, res, loc, up, stream, cbq, fault>>

\* The server has closed: it accepts no connection since server.close, and
\* the last open connection has ended.  An idle keep-alive connection may
\* delay this without bound.
ServerClosed ==
    /\ proc.phase = "closing"
    /\ \A r \in Reqs : ~ConnectionOpen(r)
    /\ proc' = serverClosed(proc)
    /\ UNCHANGED <<rev, GOOGLE_API_KEY, budget, body, pc, res, loc, up, stream, cbq, fault>>

\* Ten seconds after shutdown the force timer fires.
ForceTimer ==
    /\ proc.phase = "closing"
    /\ proc.timer = "armed"
    /\ proc' = forceExit(proc)
    /\ UNCHANGED <<rev, GOOGLE_API_KEY, budget, body, pc, res, loc, up, stream, cbq, fault>>

\* The k-th token of a stream, when it is not the empty token.
TokenText(k) == IF k = 1 THEN "t1" ELSE IF k = 2 THEN "t2" ELSE IF k = 3 THEN "t3" ELSE "t4"
\* The streams of different requests carry different texts.
StreamToken(r, k) ==
    IF r = 1 THEN TokenText(k)
    ELSE IF k = 1 THEN "u1" ELSE IF k = 2 THEN "u2" ELSE IF k = 3 THEN "u3" ELSE "u4"

\* One scope for all requests, as module-level variables would be.
sharedScope(r) == 1

\* Each call of the handler has its own scope: res is its parameter,
\* responseStarted / responseEnded are its locals, and the callbacks it
\* creates close over them.
scopeOf(r) == r

\* Express hands request r to the handler, which runs to its first await.
Receive(r) ==
    /\ Serves(proc)
    /\ pc[r] = "sent"
    /\ LET o == handler(rev, GOOGLE_API_KEY, body[r])
       IN  /\ pc' = [pc EXCEPT ![r] = o.pc]
           /\ res' = [res EXCEPT ![r] = o.ctx.res]
           /\ loc' = [loc EXCEPT ![r] = o.ctx.loc]
           /\ up' = [up EXCEPT ![r] = o.up]
           /\ stream' = [stream EXCEPT ![r] = o.stream]
           /\ fault' = [fault EXCEPT ![r] = o.fault]
    /\ UNCHANGED <<proc, rev, GOOGLE_API_KEY, budget, body, cbq>>

\* The primary provider sends a token: the client queues handleLLMNewToken.
UpstreamToken(r) ==
    /\ stream[r].open
    /\ stream[r].produced < budget
    /\ \E token \in {"", StreamToken(r, stream[r].produced + 1), LoneSurrogate} :
          /\ cbq' = [cbq EXCEPT ![r] = Append(@, [e |-> "token", tok |-> token])]
          /\ stream' = [stream EXCEPT ![r].produced = @ + 1, ![r].tokens = Append(@, token)]
    /\ UNCHANGED <<proc, rev, GOOGLE_API_KEY, budget, body, pc, res, loc, up, fault>>

\* The stream completes: handleLLMEnd is queued and the awaited promise will resolve.
UpstreamEnd(r) ==
    /\ stream[r].open
    /\ cbq' = [cbq EXCEPT ![r] = Append(@, [e |-> "end", tok |-> ""])]
    /\ stream' = [stream EXCEPT ![r].open = FALSE, ![r].outcome = "ok"]
    /\ UNCHANGED <<proc, rev, GOOGLE_API_KEY, budget, body, pc, res, loc, up, fault>>

\* The stream fails: handleLLMError is queued and the awaited promise will reject.
UpstreamError(r) ==
    /\ stream[r].open
    /\ cbq' = [cbq EXCEPT ![r] = Append(@, [e |-> "error", tok |-> ""])]
    /\ stream' = [stream EXCEPT ![r].open = FALSE, ![r].outcome = "fail"]
    /\ fault' = [fault EXCEPT ![r] = IF @.phase = "none" THEN Fault("post", "upstream") ELSE @]
    /\ UNCHANGED <<proc, rev, GOOGLE_API_KEY, budget, body, pc, res, loc, up>>

\* llm.invoke / chain.call throws before the provider streams anything.
InvokeThrows(r) ==
    /\ stream[r].open
    /\ stream[r].produced = 0
    /\ stream' = [stream EXCEPT ![r].open = FALSE, ![r].outcome = "fail"]
    /\ fault' = [fault EXCEPT ![r] = IF @.phase = "none" THEN Fault("post", "local") ELSE @]
    /\ UNCHANGED <<proc, rev, GOOGLE_API_KEY, budget, body, pc, res, loc, up, cbq>>

\* The client runs the oldest queued callback of request r.
Deliver(r) ==
    /\ cbq[r] # <<>>
    /\ LET ev == Head(cbq[r])
           c == Ctx(res[scopeOf(r)], loc[scopeOf(r)])
           d == CASE ev.e = "token" -> handleLLMNewToken(rev, c, ev.tok)
                  [] ev.e = "end" -> handleLLMEnd(rev, c)
                  [] OTHER -> handleLLMError(rev, c)
       IN  /\ res' = [res EXCEPT ![scopeOf(r)] = d.res]
           /\ loc' = [loc EXCEPT ![scopeOf(r)] = d.loc]
    /\ cbq' = [cbq EXCEPT ![r] = Tail(@)]
    /\ UNCHANGED <<proc, rev, GOOGLE_API_KEY, budget, body, pc, up, stream, fault>>

\* A handler that calls the alternate provider again instead of returning.
handlerRetries(u) ==
    [pc |-> IF u.alternate > 0 THEN "fetch" ELSE "done",
     up |-> [u EXCEPT !.alternate = IF @ > 0 THEN Min(@ + 1, 3) ELSE @]]

\* The handler returns after its await (return res.end(), or the end of the
\* function body): it makes no further provider call for the request.
handlerReturns(u) == [pc |-> "done", up |-> u]

\* The handler after await llm.invoke / chain.call / chatPrompt.invoke: it falls
\* off the end of the try block when the promise resolved (part_000 then calls
\* cleanup), and runs its catch block when the promise rejected.  Queued
\* callbacks may still be undelivered.  The promise of part_000 is the prompt
\* template's, which settles on its own.
afterInvoke(rv, c, ok) ==
    IF ok THEN (IF rv = "cleanup" THEN cleanup(c) ELSE c) ELSE catchBlock(rv, c)

AfterInvoke(r) ==
    /\ pc[r] = "invoke"
    /\ \E ok \in BOOLEAN :
          /\ IF rev = "cleanup" THEN TRUE
             ELSE stream[r].outcome = (IF ok THEN "ok" ELSE "fail")
          /\ LET d == afterInvoke(rev, Ctx(res[r], loc[r]), ok)
             IN  /\ res' = [res EXCEPT ![r] = d.res]
                 /\ loc' = [loc EXCEPT ![r] = d.loc]
          /\ fault' = [fault EXCEPT ![r] =
                          IF ~ok /\ @.phase = "none" THEN Fault("post", "local") ELSE @]
    /\ pc' = [pc EXCEPT ![r] = handlerReturns(up[r]).pc]
    /\ up' = [up EXCEPT ![r] = handlerReturns(up[r]).up]
    /\ UNCHANGED <<proc, rev, GOOGLE_API_KEY, budget, body, stream, cbq>>

\* What the alternate provider's fetch can come back with: a completion; a
\* non-success status with or without an error message in its body; a success
\* status whose body has no candidates / content / parts ("malformed"), whose
\* parts are none or one with empty text ("empty"), whose parts are two
\* without any text ("textless_parts"), or whose body is no JSON ("bad_json");
\* or no response at all ("rejected").
FetchReplies ==
    {"ok", "http_error_message", "http_error_status", "http_error_429", "malformed", "empty",
     "textless_parts", "bad_json", "rejected"}

\* A handler that writes the completion whatever the reply was.
afterFetchUnchecked(rv, c, reply) ==
    Ctx(ResEnd(ResWrite(c.res, Chunk("text", "completion"))), c.loc)

\* The handler after await fetch(url, ...): server.js 100-124 and 299-319.
\* The first revision joins the texts of the parts with ' ', which for two
\* parts without text gives " ", a non-empty string; the second revision reads
\* parts[0].text only.
afterFetch(rv, c, reply) ==
    LET say(chunk) == Ctx(ResEnd(ResWrite(c.res, chunk)), c.loc)
    IN  CASE reply = "ok" -> say(Chunk("text", "completion"))
          [] reply = "http_error_message" -> say(Chunk("error", "Error: provider message"))
          [] reply = "http_error_status" -> say(Chunk("error", "Error: HTTP error! status: 500"))
          [] reply = "http_error_429" -> say(Chunk("error", "Error: HTTP error! status: 429"))
          [] reply = "textless_parts" ->
                say(IF rv = "gemini1" THEN Chunk("text", " ")
                    ELSE Chunk("error", "Error: Invalid response structure from Gemini API"))
          [] reply = "malformed" ->
                say(Chunk("error", "Error: Invalid response structure from Gemini API"))
          [] reply = "empty" ->
                say(Chunk("error", IF rv = "gemini1" THEN "Error: Empty response from Gemini model"
                                   ELSE "Error: Invalid response structure from Gemini API"))
          [] reply = "bad_json" -> say(Chunk("error", "Error: invalid json response body"))
          [] OTHER -> say(Chunk("error", "Error: request failed"))

\* Whether the handler takes the reply for an error (an error branch or the
\* inner catch runs).
fetchFails(rv, reply) == reply # "ok" /\ ~(rv = "gemini1" /\ reply = "textless_parts")

AfterFetch(r) ==
    /\ pc[r] = "fetch"
    /\ \E reply \in FetchReplies :
          /\ LET d == afterFetch(rev, Ctx(res[r], loc[r]), reply)
             IN  /\ res' = [res EXCEPT ![r] = d.res]
                 /\ loc' = [loc EXCEPT ![r] = d.loc]
          /\ fault' = [fault EXCEPT ![r] =
                          IF fetchFails(rev, reply) THEN Fault("post", "upstream") ELSE @]
          /\ up' = [up EXCEPT ![r] = handlerReturns([up[r] EXCEPT !.reply = reply]).up]
    /\ pc' = [pc EXCEPT ![r] = handlerReturns(up[r]).pc]
    /\ UNCHANGED <<proc, rev, GOOGLE_API_KEY, budget, body, stream, cbq>>

Next ==
    \E r \in Reqs :
        \/ Receive(r)
        \/ UpstreamToken(r)
        \/ UpstreamEnd(r)
        \/ UpstreamError(r)
        \/ InvokeThrows(r)
        \/ Deliver(r)
        \/ AfterInvoke(r)
        \/ AfterFetch(r)

(* --------------------------- initial states --------------------------- *)
Hi == Lit("Hi")
Messages ==
    {Undef, Num(Whole(5)), Num(0), Str(<<>>), Str(<<" ", " ">>), Hi, Str(<<" ", "Hi", " ">>)}
Models == {Undef, Lit("llama-3.3-70b-versatile"), Lit("gemini-2.0-flash"), Lit("foo")}
Histories ==
    {NoHistory, HistoryOf(<<NullEntry>>),
     HistoryOf(<<Entry(Lit("user"), Lit("A")), Entry(Lit("assistant"), Lit("B"))>>)}
Formats == {Undef, Lit("json")}

\* The requests of the relay specification: message, model, history and format vary.
RelayBodies ==
    {[BaseBody EXCEPT !.message = m, !.model = md, !.history = h, !.format = f] :
        m \in Messages, md \in Models, h \in Histories, f \in Formats}

\* One request is in flight, with body b; the other connection stays unused.
InitWith(bodies, keys) ==
    /\ rev \in Revs
    /\ GOOGLE_API_KEY \in keys
    /\ proc = Serving(GOOGLE_API_KEY)
    /\ \E b \in bodies : body = [r \in Reqs |-> IF r = 1 THEN b ELSE BaseBody]
    /\ pc = [r \in Reqs |-> IF r = 1 THEN "sent" ELSE "absent"]
    /\ res = [r \in Reqs |-> NewResponse]
    /\ loc = [r \in Reqs |-> NewLocals]
    /\ up = [r \in Reqs |-> NoUpstream]
    /\ stream = [r \in Reqs |-> NoStream]
    /\ cbq = [r \in Reqs |-> <<>>]
    /\ fault = [r \in Reqs |-> NoFault]

Init == InitWith(RelayBodies, BOOLEAN) /\ budget = MaxTokens

Spec == Init /\ [][Next]_vars

\* The requests of the parameter specification: one generation parameter varies
\* at a time (the handler treats the three independently).
ParamValues ==
    {Undef, Num(-5), Num(0), Num(7), Num(Whole(1)), Num(Whole(2)), Num(25), Num(Whole(5)),
     Lit("abc"), Str(<<"3">>), Str(<<"0", ".", "5">>), Str(<<"-", "1">>)}
TokenLimits ==
    {Undef, Num(Whole(-3)), Num(0), Num(Whole(1)), Num(15), Num(Whole(256)), Lit("abc"),
     Str(<<"6", "4">>), Str(<<"1", ".", "9">>)}
ParamModels == {Undef, Lit("gemini-2.0-flash")}
ParamBodies ==
    {[BaseBody EXCEPT !.model = md, !.temperature = t] : md \in ParamModels, t \in ParamValues}
    \cup {[BaseBody EXCEPT !.model = md, !.top_p = t] : md \in ParamModels, t \in ParamValues}
    \cup {[BaseBody EXCEPT !.model = md, !.max_completion_tokens = t] :
             md \in ParamModels, t \in TokenLimits}

InitParams == InitWith(ParamBodies, BOOLEAN) /\ budget = 1
SpecParams == InitParams /\ [][Next]_vars

\* The requests of the history specification: every history of at most MaxHist
\* entries, with and without a system text, for either provider.
HistEntries ==
    {NullEntry, Entry(Lit("user"), Lit("A")), Entry(Lit("assistant"), Lit("B")),
     Entry(Lit("system"), Lit("C")), Entry(Lit("bot"), Lit("D")), Entry(Undef, Lit("E")),
     Entry(Lit("user"), Undef)}
HistArrays == UNION {[1..n -> HistEntries] : n \in 0..MaxHist}
HistBodies ==
    {[BaseBody EXCEPT !.model = md, !.system = sy, !.history = h] :
        md \in ParamModels, sy \in {Undef, Lit("S")},
        h \in {NoHistory} \cup {HistoryOf(a) : a \in HistArrays}}

InitHist == InitWith(HistBodies, {TRUE}) /\ budget = 1
SpecHist == InitHist /\ [][Next]_vars

\* The start of the process: every environment and .env file, one request
\* sent to the server's address.
Environments ==
    [GROQ_API_KEY : BOOLEAN, API_KEY : BOOLEAN, GOOGLE_API_KEY : BOOLEAN, production : BOOLEAN]
EnvFiles == [GROQ_API_KEY : BOOLEAN, GOOGLE_API_KEY : BOOLEAN]
BootBodies == {BaseBody, [BaseBody EXCEPT !.model = Lit("gemini-2.0-flash")]}
InitBoot ==
    /\ rev \in Revs
    /\ GOOGLE_API_KEY = FALSE
    /\ \E env \in Environments, file \in EnvFiles : proc = NewProcess(env, file)
    /\ \E b \in BootBodies : body = [r \in Reqs |-> IF r = 1 THEN b ELSE BaseBody]
    /\ pc = [r \in Reqs |-> IF r = 1 THEN "sent" ELSE "absent"]
    /\ res = [r \in Reqs |-> NewResponse]
    /\ loc = [r \in Reqs |-> NewLocals]
    /\ up = [r \in Reqs |-> NoUpstream]
    /\ stream = [r \in Reqs |-> NoStream]
    /\ cbq = [r \in Reqs |-> <<>>]
    /\ fault = [r \in Reqs |-> NoFault]
    /\ budget = 1
\* Once the process has exited nothing of it runs any more.
NextBoot ==
    \/ LoadServer
    \/ StartServing
    \/ \E sig \in {"SIGTERM", "SIGINT"} : Signal(sig)
    \/ ServerClosed
    \/ ForceTimer
    \/ (Alive(proc) /\ Next)
SpecBoot == InitBoot /\ [][NextBoot]_vars

\* Liveness of the shutdown is stated under the one scheduling fact it relies
\* on: a timer that is armed fires unless the process exits first.
SpecShutdown == InitBoot /\ [][NextBoot]_vars /\ WF_vars(ForceTimer)

\* Two requests in flight at once, the second one for either provider.
InitTwo ==
    /\ rev \in Revs
    /\ GOOGLE_API_KEY = TRUE
    /\ proc = Serving(GOOGLE_API_KEY)
    /\ \E b \in BootBodies : body = [r \in Reqs |-> IF r = 1 THEN BaseBody ELSE b]
    /\ pc = [r \in Reqs |-> "sent"]
    /\ res = [r \in Reqs |-> NewResponse]
    /\ loc = [r \in Reqs |-> NewLocals]
    /\ up = [r \in Reqs |-> NoUpstream]
    /\ stream = [r \in Reqs |-> NoStream]
    /\ cbq = [r \in Reqs |-> <<>>]
    /\ fault = [r \in Reqs |-> NoFault]
    /\ budget = 1
SpecTwo == InitTwo /\ [][Next]_vars

\* Liveness is stated under the scheduling the code relies on: Express
\* dispatches a request that was sent, the event loop runs every queued callback
\* and every continuation whose promise settled, the alternate provider's fetch
\* settles, and a provider stream that was opened completes or fails.
FairBodies ==
    {[BaseBody EXCEPT !.message = m, !.model = md, !.history = h] :
        m \in {Undef, Hi}, md \in Models, h \in {NoHistory, HistoryOf(<<NullEntry>>)}}
InitFair == InitWith(FairBodies, BOOLEAN) /\ budget = MaxTokens
Fairness ==
    \A r \in Reqs :
        /\ WF_vars(Receive(r))
        /\ WF_vars(Deliver(r))
        /\ WF_vars(AfterInvoke(r))
        /\ WF_vars(AfterFetch(r))
        /\ WF_vars(UpstreamEnd(r) \/ UpstreamError(r) \/ InvokeThrows(r))
FairSpec == InitFair /\ [][Next]_vars /\ Fairness

(* ------------------------------- claims ------------------------------- *)
\* A message that is missing, not a string, empty or whitespace-only.
BlankOrMissing(m) == m.t # "string" \/ \A i \in 1..Len(m.s) : m.s[i] = " "

\* C1: a request whose message is missing, not a string, empty or
\* whitespace-only is answered with HTTP 400 and a JSON error body; no
\* streaming headers are written and no provider, primary or alternate, is
\* ever called for it.
C1_BlankMessageRejected ==
    \A r \in Reqs :
        BlankOrMissing(body[r].message) =>
            /\ up[r].primary = 0
            /\ up[r].alternate = 0
            /\ stream[r] = NoStream
            /\ cbq[r] = <<>>
            /\ res[r].status \in {0, 400}
            /\ res[r].ctype \in {"", "application/json"}
            /\ pc[r] \in {"sent", "done"}
            /\ pc[r] = "done" =>
                  /\ res[r].status = 400
                  /\ res[r].ctype = "application/json"
                  /\ res[r].ended
                  /\ Len(res[r].chunks) = 1
                  /\ res[r].chunks[1].k = "json_error"

C1_Witness ==
    /\ body[1].message = Str(<<" ", " ">>)
    /\ pc[1] = "done"
    /\ res[1].status = 400

\* C2: once the response of a request has been ended, no further write to it
\* and no second end of it is performed, in any interleaving of the token, end
\* and error callbacks with the handler's completion and catch block
\* (server.js and part_000, the revisions the claim is drawn from).
C2_EndedIsTerminal ==
    rev \in {"gemini1", "gemini2", "cleanup"} =>
        \A r \in Reqs : ~res[r].lateWrite /\ res[r].endCalls <= 1

HasErrorMarker(rs) == \E i \in 1..Len(rs.chunks) : rs.chunks[i].k \in {"error", "server_error"}

\* C4: an error raised before the streaming headers are written produces a
\* structured 4xx/5xx JSON error body and never starts a stream; an error
\* raised after them is written as in-band text into the open stream, which is
\* then closed, and the committed status 200 is not changed (part_000 and
\* server.js).
C4_ErrorSurface ==
    rev \in {"gemini1", "gemini2", "cleanup"} =>
    \A r \in Reqs :
        /\ fault[r].phase = "pre" /\ pc[r] = "done" =>
              /\ res[r].status \in 400..599
              /\ res[r].ctype = "application/json"
              /\ \A i \in 1..Len(res[r].chunks) : res[r].chunks[i].k = "json_error"
              /\ up[r] = NoUpstream
        /\ fault[r].phase = "post" =>
              /\ res[r].status = 200
              /\ res[r].ended => HasErrorMarker(res[r])

\* The alternate provider's allow-list, as the claim fixes it.
AllowListed(model) ==
    model \in {Lit("gemma-3-27b-it"), Lit("gemini-2.0-flash"), Lit("gemini-2.5-flash-preview-04-17")}

\* C5: provider selection is a static lookup: for a model identifier of the
\* alternate allow-list only the alternate provider is called and never the
\* primary one; for every other identifier only the primary provider is called
\* and never the alternate one.  (Only server.js has an alternate provider.)
C5_StaticProviderSelection ==
    \A r \in Reqs :
        /\ rev \in GeminiRevs /\ AllowListed(body[r].model) =>
              /\ up[r].primary = 0
              /\ stream[r] = NoStream
              /\ pc[r] # "invoke"
        /\ ~AllowListed(body[r].model) =>
              /\ up[r].alternate = 0
              /\ pc[r] # "fetch"
        /\ up[r].primary + up[r].alternate <= 1

C5_Witness ==
    /\ rev \in GeminiRevs
    /\ AllowListed(body[1].model)
    /\ up[1].alternate = 1
    /\ pc[1] = "done"
    /\ res[1].ended

\* Whether a provider was called for request r.
Called(r) == up[r].primary + up[r].alternate > 0

\* The texts of a sequence of messages or of history entries.
TextsOf(ms) == [i \in 1..Len(ms) |-> ms[i].text]
ContentsOf(items) == [i \in 1..Len(items) |-> items[i].content]

\* a is b with some elements left out, the rest in b's order.
RECURSIVE IsSubsequence(_, _)
IsSubsequence(a, b) ==
    IF a = <<>> THEN TRUE
    ELSE IF b = <<>> THEN FALSE
    ELSE IF Head(a) = Head(b) THEN IsSubsequence(Tail(a), Tail(b))
    ELSE IsSubsequence(a, Tail(b))

SameText(x, y) == x.t = "string" /\ y.t = "string" /\ Trim(x.s) = Trim(y.s)

\* C6: for a request with a history, the conversation sent upstream is the
\* system instruction first, then the retained history entries in their given
\* order, then the current user message as the last element (server.js, on
\* the primary and on the alternate path).
C6_ConversationOrder ==
    rev \in GeminiRevs =>
    \A r \in Reqs :
        Called(r) /\ body[r].history.isArray =>
            LET ms == up[r].messages
                n == Len(ms)
                k == IF up[r].primary = 1 \/ Truthy(body[r].system) THEN 1 ELSE 0
            IN  /\ n >= k + 1
                /\ SameText(ms[n].text, body[r].message)
                /\ ms[n].role \in {"human", "user"}
                /\ up[r].primary = 1 => ms[1].role = "system"
                /\ Truthy(body[r].system) => SameText(ms[1].text, body[r].system)
                /\ IsSubsequence(TextsOf(SubSeq(ms, k + 1, n - 1)),
                                 ContentsOf(body[r].history.items))

\* C7: a history entry whose role is unrecognized or missing, or whose
\* content is missing, is excluded from the assembled conversation without
\* failing the request, and the retained entries keep their relative order
\* (server.js and part_001).
C7_BadEntriesDropped ==
    rev \in {"gemini1", "gemini2", "memory"} =>
    \A r \in Reqs :
        body[r].history.isArray =>
            /\ fault[r].kind # "typeerror"
            /\ Called(r) =>
                  LET ms == up[r].messages
                      fromHistory == IF up[r].primary = 1 THEN SubSeq(ms, 2, Len(ms) - 1)
                                     ELSE SelectSeq(ms, LAMBDA m : m.text # body[r].message
                                                                   /\ m.text # body[r].system)
                  IN  /\ \A i \in 1..Len(fromHistory) : fromHistory[i].text.t = "string"
                      /\ \A i \in 1..Len(fromHistory) :
                            \E j \in 1..Len(body[r].history.items) :
                                LET e == body[r].history.items[j]
                                IN  /\ ~e.isNull
                                    /\ e.content = fromHistory[i].text
                                    /\ e.role \in {Lit("user"), Lit("assistant"), Lit("system")}
                      /\ IsSubsequence(TextsOf(fromHistory), ContentsOf(body[r].history.items))

\* A generation parameter that is no number and does not start like one.
NonNumeric(v) == v.t = "undefined" \/ (v.t = "string" /\ v.s # <<>> /\ v.s[1] \notin Digits \cup {"-", "+", ".", " "})

\* C8: the temperature passed upstream lies in [0, 2] and the topP in
\* [0, 1]; an input outside the range is clamped to the nearest bound, and a
\* non-numeric input is replaced by the default 1.0 (part_000 and server.js).
C8_ParametersClamped ==
    rev \in {"gemini1", "gemini2", "cleanup"} =>
    \A r \in Reqs :
        Called(r) =>
            LET t == up[r].config.temperature
                p == up[r].config.topP
                tin == body[r].temperature
                pin == body[r].top_p
            IN  /\ t.t = "number" /\ 0 <= t.n /\ t.n <= 20
                /\ p.t = "number" /\ 0 <= p.n /\ p.n <= 10
                /\ tin.t = "number" => t.n = (IF tin.n < 0 THEN 0 ELSE IF tin.n > 20 THEN 20 ELSE tin.n)
                /\ pin.t = "number" => p.n = (IF pin.n < 0 THEN 0 ELSE IF pin.n > 10 THEN 10 ELSE pin.n)
                /\ NonNumeric(tin) => t.n = 10
                /\ NonNumeric(pin) => p.n = 10

\* C9: with format "json" no token is written to the response as it
\* arrives; the tokens are written once, as a single JSON envelope, after the
\* upstream stream signals completion (server.js).
C9_JsonIsBuffered ==
    rev \in GeminiRevs =>
    \A r \in Reqs :
        body[r].format = Lit("json") =>
            \A i \in 1..Len(res[r].chunks) : res[r].chunks[i].k # "token"

\* The identifiers some revision supports: the primary provider's and the
\* alternate provider's.
Supported(model) ==
    \/ AllowListed(model)
    \/ model \in {Lit("compound-beta"), Lit("compound-beta-mini"),
                  Lit("meta-llama/llama-4-scout-17b-16e-instruct"),
                  Lit("llama-3.3-70b-versatile"), Lit("gemma2-9b-it"),
                  Lit("deepseek-r1-distill-llama-70b"), Lit("qwen-qwq-32b")}

\* C10: for a request whose model is not a supported identifier the handler
\* substitutes the default "compound-beta" or rejects the request with a 400
\* before any streaming begins; an unsupported identifier is never forwarded
\* to an upstream provider (part_000, part_002 and server.js).
C10_UnsupportedModelNotForwarded ==
    rev \in {"gemini1", "gemini2", "cleanup", "strict"} =>
    \A r \in Reqs :
        /\ Called(r) => Supported(up[r].config.model)
        /\ ~Supported(body[r].model) /\ Called(r) => up[r].config.model = Lit("compound-beta")
        /\ fault[r].kind = "model" =>
              ~Called(r) /\ res[r].status = 400 /\ res[r].ctype = "application/json"

\* C11: in server.js, for an accepted request (its message passed validation)
\* that asks for a model of the alternate allow-list while no GOOGLE_API_KEY is
\* configured, the response carries exactly the text "Error: GOOGLE_API_KEY is
\* required for Gemini models.", it is ended once, and neither the alternate
\* nor the primary provider is ever contacted for the request.
C11_MissingKeyReported ==
    rev \in GeminiRevs /\ ~GOOGLE_API_KEY =>
    \A r \in Reqs :
        AllowListed(body[r].model) /\ ~BlankOrMissing(body[r].message) =>
            /\ up[r] = NoUpstream
            /\ stream[r] = NoStream
            /\ cbq[r] = <<>>
            /\ pc[r] \in {"absent", "sent", "done"}
            /\ pc[r] = "done" =>
                  /\ res[r].chunks =
                        <<Chunk("error", "Error: GOOGLE_API_KEY is required for Gemini models.")>>
                  /\ res[r].ended
                  /\ res[r].endCalls = 1
                  /\ ~res[r].lateWrite

C11_Witness ==
    /\ rev \in GeminiRevs
    /\ ~GOOGLE_API_KEY
    /\ body[1].model = Lit("gemini-2.0-flash")
    /\ body[1].history = HistoryOf(<<NullEntry>>)
    /\ pc[1] = "done"
    /\ res[1].ended
    /\ Len(res[1].chunks) = 1

\* C12: no retries.  Counting the provider calls the handler issues
\* (llm.invoke / chain.call on the primary path, fetch on the alternate path),
\* a request never has more than one of them, so none follows a failed call;
\* and once the handler has returned from a failed call the response is ended.
C12_NoRetries ==
    \A r \in Reqs :
        /\ up[r].primary + up[r].alternate <= 1
        /\ pc[r] = "done" /\ fault[r].kind \in {"upstream", "local"} =>
              res[r].ended

C12_Witness ==
    /\ up[1].alternate = 1
    /\ fault[1].kind = "upstream"
    /\ pc[1] = "done"
    /\ res[1].ended

\* The bytes a string has on the wire: an unpaired surrogate is sent as U+FFFD.
Utf8Bytes(text) == IF text = LoneSurrogate THEN Replacement ELSE text

IsTokenEvent(ev) == ev.e = "token"
IsTokenChunk(ch) == ch.k = "token"
IsNonEmpty(token) == token # ""

\* The tokens handleLLMNewToken has been called with so far: those the
\* provider sent, less those whose callback is still queued.
Delivered(r) ==
    SubSeq(stream[r].tokens, 1, Len(stream[r].tokens) - Len(SelectSeq(cbq[r], IsTokenEvent)))

\* C13: on the primary path of server.js the token bytes written to the
\* response are exactly the non-empty tokens the callback has received so far,
\* in arrival order, and an error fragment comes after every token written,
\* never before or in place of one.
C13_TokensInOrder ==
    rev \in GeminiRevs =>
    \A r \in Reqs :
        up[r].primary = 1 =>
            LET written == res[r].chunks
                tokens == SelectSeq(written, IsTokenChunk)
                received == SelectSeq(Delivered(r), IsNonEmpty)
            IN  /\ Len(tokens) = Len(received)
                /\ \A i \in 1..Len(tokens) : Utf8Bytes(tokens[i].v) = Utf8Bytes(received[i])
                /\ \A i \in 1..Len(written) : ~IsTokenChunk(written[i]) => i = Len(written)

\* C14: for a request that carries no system text, the conversation sent
\* upstream, on the primary and on the alternate path of server.js alike,
\* has the default instruction "You are a helpful AI assistant." as its system
\* instruction (its first element).
C14_DefaultSystemPrompt ==
    rev \in GeminiRevs =>
    \A r \in Reqs :
        Called(r) /\ body[r].system = Undef =>
            /\ Len(up[r].messages) >= 1
            /\ up[r].messages[1].text = Lit("You are a helpful AI assistant.")

\* No primary key anywhere: neither GROQ_API_KEY nor API_KEY in the
\* environment, and none in the .env file.
NoPrimaryKey == ~proc.env.GROQ_API_KEY /\ ~proc.env.API_KEY /\ ~proc.file.GROQ_API_KEY

\* C15: when neither GROQ_API_KEY nor API_KEY is set, loading the server
\* module throws before a route is registered and before listen is called:
\* the process never serves, so no request is ever handled or answered.
C15_MissingKeyFatal ==
    NoPrimaryKey =>
        /\ proc.phase \in {"start", "crashed"}
        /\ ~proc.routes
        /\ \A r \in Reqs :
              /\ pc[r] \in {"absent", "sent"}
              /\ res[r] = NewResponse
              /\ up[r] = NoUpstream

C15_Witness ==
    /\ NoPrimaryKey
    /\ proc.phase = "crashed"
    /\ proc.env.GOOGLE_API_KEY
    /\ pc[1] = "sent"

\* Everything the model keeps for request r.
RequestState(r) == <<pc[r], res[r], loc[r], up[r], stream[r], cbq[r], fault[r]>>

\* The token texts request r's own upstream stream has carried, as bytes.
OwnTokens(r) == {Utf8Bytes(stream[r].tokens[i]) : i \in 1..Len(stream[r].tokens)}

\* Every token in the response of r came from r's own stream.
OnlyOwnTokens ==
    \A r \in Reqs : \A i \in 1..Len(res[r].chunks) :
        IsTokenChunk(res[r].chunks[i]) => Utf8Bytes(res[r].chunks[i].v) \in OwnTokens(r)

\* A step of the handling of one request leaves every other request as it was.
OneRequestPerStep ==
    \A r, q \in Reqs : r # q /\ RequestState(r)' # RequestState(r) =>
        RequestState(q)' = RequestState(q)

\* C16: requests are handled independently: in every interleaving of two
\* concurrent requests the tokens of a request are written only to its own
\* response, and a step that writes to, ends or changes the ended/started
\* state of one request neither reads nor changes that of the other.
C16_RequestsIndependent == []OnlyOwnTokens /\ [][OneRequestPerStep]_vars

C16_Witness ==
    /\ \E i \in 1..Len(res[1].chunks) : res[1].chunks[i].v = "t1"
    /\ \E i \in 1..Len(res[2].chunks) : res[2].chunks[i].v = "u1"
    /\ res[1].ended
    /\ ~res[2].ended

\* C17: the maxTokens passed upstream is a positive integer; a
\* max_completion_tokens that is a non-integer number or not numeric is
\* replaced by the default 1024, an integer below 1 is raised to 1, and an
\* integer from 1 up is passed as it is (part_000, part_001 and server.js).
C17_MaxTokensPositiveInteger ==
    rev \in {"gemini1", "gemini2", "cleanup", "memory"} =>
    \A r \in Reqs :
        Called(r) =>
            LET m == up[r].config.maxTokens
                given == body[r].max_completion_tokens
            IN  /\ m.t = "number" /\ m.n % 10 = 0 /\ m.n >= Whole(1)
                /\ given.t = "number" /\ given.n % 10 = 0 =>
                      m.n = (IF given.n < Whole(1) THEN Whole(1) ELSE given.n)
                /\ given.t = "number" /\ given.n % 10 # 0 => m.n = Whole(1024)
                /\ NonNumeric(given) => m.n = Whole(1024)

\* The history entries the alternate path retains: role user or assistant.
RetainedForGemini(items) == SelectSeq(items, IsUserOrAssistant)

\* The part of the alternate provider's contents that came from the history:
\* after the message in the first revision of server.js, before it in the second.
HistoryPart(rv, ms, b) ==
    LET k == IF Truthy(b.system) THEN 1 ELSE 0
    IN  IF rv = "gemini1" THEN SubSeq(ms, k + 2, Len(ms)) ELSE SubSeq(ms, k + 1, Len(ms) - 1)

\* C18: in the conversation sent to the alternate provider every retained
\* history entry with role "assistant" carries the label "model" and every
\* retained entry with role "user" carries "user"; the label "assistant"
\* appears nowhere in the alternate provider's request body.
C18_AssistantBecomesModel ==
    rev \in GeminiRevs =>
    \A r \in Reqs :
        up[r].alternate = 1 =>
            LET ms == up[r].messages
                kept == RetainedForGemini(body[r].history.items)
                part == HistoryPart(rev, ms, body[r])
            IN  /\ \A i \in 1..Len(ms) : ms[i].role # "assistant"
                /\ Len(part) = Len(kept)
                /\ \A i \in 1..Len(kept) :
                      /\ part[i].text = kept[i].content
                      /\ kept[i].role = Lit("assistant") => part[i].role = "model"
                      /\ kept[i].role = Lit("user") => part[i].role = "user"

C18_Witness ==
    /\ rev \in GeminiRevs
    /\ up[1].alternate = 1
    /\ \E i \in 1..Len(up[1].messages) :
          up[1].messages[i] = Msg("model", Lit("B"))
    /\ \E i \in 1..Len(up[1].messages) :
          up[1].messages[i] = Msg("user", Lit("A"))

\* C19: when the alternate provider answers with a non-success HTTP
\* status, the response gets one in-band fragment "Error: <message>" and is
\* closed; <message> is the provider's error message when the error body has
\* one, otherwise a generic message with the HTTP status code; the completion
\* text is not written.
C19_HttpErrorInBand ==
    rev \in GeminiRevs =>
    \A r \in Reqs :
        up[r].reply \in {"http_error_message", "http_error_status", "http_error_429"} =>
            /\ pc[r] = "done"
            /\ res[r].ended /\ res[r].endCalls = 1 /\ ~res[r].lateWrite
            /\ res[r].status = 200
            /\ res[r].chunks =
                  <<Chunk("error",
                          CASE up[r].reply = "http_error_message" -> "Error: provider message"
                            [] up[r].reply = "http_error_status" ->
                                  "Error: HTTP error! status: 500"
                            [] OTHER -> "Error: HTTP error! status: 429")>>

C19_Witness ==
    /\ up[1].reply = "http_error_429"
    /\ pc[1] = "done"
    /\ res[1].ended
    /\ Len(res[1].chunks) = 1

\* C20: a success-status reply of the alternate provider whose completion
\* is missing, malformed or empty is handled like an HTTP error: one in-band
\* "Error: <message>" fragment is written, the response is closed, and no
\* completion text is written.
C20_ProtocolErrorInBand ==
    rev \in GeminiRevs =>
    \A r \in Reqs :
        up[r].reply \in {"malformed", "empty", "textless_parts", "bad_json"} =>
            /\ pc[r] = "done"
            /\ res[r].ended /\ res[r].endCalls = 1
            /\ Len(res[r].chunks) = 1
            /\ res[r].chunks[1].k = "error"

\* The error fragments in a response body: "Error: ..." and "\nServer Error: ...".
IsErrorMarker(ch) == ch.k \in {"error", "server_error"}
IsServerError(ch) == ch.k = "server_error"
ErrorMarkers(rs) == SelectSeq(rs.chunks, IsErrorMarker)

\* No response body has two error fragments, and the alternate path never
\* produces the outer catch block's fragment.
AtMostOneErrorMarker ==
    rev \in GeminiRevs =>
    \A r \in Reqs :
        /\ Len(ErrorMarkers(res[r])) <= 1
        /\ up[r].alternate = 1 => SelectSeq(res[r].chunks, IsServerError) = <<>>

\* The handler's continuation after the rejected invoke (its catch block)
\* leaves a response that is already ended exactly as it was; on a response
\* that is still open it writes the "\nServer Error: " fragment and ends it.
CatchSilentOnceEnded ==
    rev \in GeminiRevs =>
    \A r \in Reqs :
        pc[r] = "invoke" /\ pc'[r] = "done" /\ stream[r].outcome = "fail" =>
            IF res[r].ended THEN res'[r] = res[r]
            ELSE /\ res'[r].chunks = Append(res[r].chunks, Chunk("server_error", "\nServer Error: "))
                 /\ res'[r].ended

\* C21: in server.js a response body contains at most one error marker: once
\* the error callback has written "Error: ..." and ended the response, the catch
\* block reached by the rejected invoke writes nothing more; the catch block
\* writes "\nServer Error: ..." only on a response that is not ended yet; and an
\* alternate-path error, handled by the inner catch, never reaches the outer one.
C21_OneErrorMarker == []AtMostOneErrorMarker /\ [][CatchSilentOnceEnded]_vars

C21_Witness ==
    /\ rev \in GeminiRevs
    /\ up[1].primary = 1
    /\ stream[1].outcome = "fail"
    /\ pc[1] = "done"
    /\ cbq[1] = <<>>
    /\ res[1].ended
    /\ ErrorMarkers(res[1]) = <<Chunk("error", "Error: ")>>

C23_KeyReadBeforeDotenv ==
    rev \in GeminiRevs /\ proc.phase # "start" =>
        /\ GOOGLE_API_KEY = proc.atStart.GOOGLE_API_KEY
        /\ proc.phase # "crashed" <=>
              (proc.atStart.GROQ_API_KEY \/ proc.atStart.API_KEY \/ proc.file.GROQ_API_KEY)
        /\ ~proc.atStart.GOOGLE_API_KEY /\ proc.file.GOOGLE_API_KEY =>
              \A r \in Reqs :
                  /\ up[r].alternate = 0
                  /\ pc[r] # "fetch"
                  /\ AllowListed(body[r].model) /\ pc[r] = "done" =>
                        res[r].chunks = <<Chunk("error", GeminiKeyError)>>

C23_Witness ==
    /\ rev \in GeminiRevs
    /\ ~proc.atStart.GOOGLE_API_KEY /\ proc.file.GOOGLE_API_KEY
    /\ proc.env.GOOGLE_API_KEY
    /\ ~proc.atStart.GROQ_API_KEY /\ ~proc.atStart.API_KEY /\ proc.file.GROQ_API_KEY
    /\ proc.phase = "listening"
    /\ AllowListed(body[1].model)
    /\ pc[1] = "done"
    /\ res[1].chunks = <<Chunk("error", GeminiKeyError)>>

\* Once a signal has started the shutdown the process exits.
ShutdownExits == (proc.phase = "closing") ~> (proc.phase = "exited")

\* The exit code of a shutdown: 0 from the callback of server.close, which
\* runs with no connection left open and before the force timer fired; 1 from
\* the force timer.
ShutdownExitCode ==
    proc.phase = "exited" /\ proc.signal # "none" =>
        /\ ~proc.env.production
        /\ proc.code \in {0, 1}
        /\ proc.code = 0 => proc.timer = "armed" /\ \A r \in Reqs : ~ConnectionOpen(r)
        /\ proc.code = 1 => proc.timer = "fired"

\* In production mode index.js neither listens nor installs a signal handler.
ProductionOnlyExports ==
    proc.env.production =>
        /\ proc.phase \in {"start", "crashed", "loaded", "exported"}
        /\ ~proc.handlers
        /\ proc.timer = "unset"
        /\ proc.signal = "none"
        /\ proc.code = -1

\* C24: in non-production mode the process always eventually exits after a
\* SIGTERM or SIGINT: with code 0 when the server finishes closing its
\* connections before the 10-second force timer fires, with code 1 when the
\* timer fires first; in production mode index.js never calls listen and
\* installs no signal handlers.
C24_ShutdownExits == ShutdownExits /\ []ShutdownExitCode /\ []ProductionOnlyExports

\* A request was still waiting for its provider when the force timer ended
\* the process.
C24_Witness ==
    /\ proc.phase = "exited"
    /\ proc.signal = "SIGTERM"
    /\ proc.code = 1
    /\ pc[1] = "invoke"

====
